---- MODULE Spec2Model ----
(***************************************************************************)
(* Model of src/app2.py (Boat Data Analyzer): the CSV loader               *)
(* load_csv_robuste and the rule evaluator analyze_dataframe.              *)
(*                                                                         *)
(* Representation.                                                         *)
(*  - A text (column label, error message, keyword) is a sequence of       *)
(*    one-character strings, so that str.lower() and the substring test    *)
(*    `k in cl` are computed and not assumed.                              *)
(*  - A cell is a record [kind, val]: kind "num" is a cell that holds (or  *)
(*    parses to) the number val, "txt" a cell that holds the text val,     *)
(*    which does not parse as a number, "nan" a missing value (NaN, an     *)
(*    empty field), "bool" a boolean column value.                         *)
(*  - Numbers are fixed point integers: Time and dt in tenths of a second, *)
(*    AFR in thousandths, TPS, Fuel, ECT and the ambient temperature in    *)
(*    whole units, Lambda (AFR / 14.7) in units of 1/147000, so that the   *)
(*    AFR values 11.025 and 15.435, whose Lambda is 0.75 and 1.05, are     *)
(*    cells.  Arithmetic on them is exact; the rounding of IEEE doubles is *)
(*    not modelled.                                                        *)
(*  - A table (DataFrame) is [columns |-> sequence of labels,              *)
(*    rows |-> sequence of rows], a row being a sequence of cells aligned  *)
(*    with columns.                                                        *)
(***************************************************************************)
EXTENDS Integers, Sequences, FiniteSets, TLC

VARIABLES
    pc,             \* "start" | "loaded" | "analyzed" | "failed"
    file,           \* the uploaded file: a sequence of lines (load_csv_robuste's input)
    df,             \* the caller's table: df of upload
    arg,            \* the table the last analyze_dataframe call was given
    cols,           \* the local cols of the last analyze_dataframe call
    ambient_temp,   \* the request's ambient temperature
    verdicts,       \* results (cheat, cheat_time) of the successive analyze_dataframe calls
    message,        \* text of the exception raised, None when there is none
    reqs,           \* the upload requests: for each, its position and the locals of upload
    now,            \* the wall clock, datetime.now().timestamp(), in half seconds
    disk            \* the files of UPLOAD_DIR: name -> content

vars == <<pc, file, df, arg, cols, ambient_temp, verdicts, message, reqs, now, disk>>

----------------------------------------------------------------------------
(* Bounds of the model *)

MaxRows == 4        \* rows of a table handed to analyze_dataframe
MaxCols == 5        \* columns of a header in the channel resolution runs
MaxBanner == 51     \* banner lines at the top of a file
MaxTail == 3        \* lines of a file after its banner lines
MaxCalls == 2       \* successive analyze_dataframe calls on one table

----------------------------------------------------------------------------
(* CFG, src/app2.py lines 9-18, in the units given above *)

CFG == [ tps_min     |-> 90,
         tps_max     |-> 105,
         lambda_min  |-> 75,      \* 0.75, hundredths
         lambda_max  |-> 105,     \* 1.05, hundredths
         fuel_min    |-> 40,
         fuel_max    |-> 60,
         temp_offset |-> 20,
         cheat_delay |-> 5 ]      \* 0.5 s, tenths of a second

Stoich == 147       \* 14.7, tenths: df["Lambda"] = df["AFR"] / 14.7
ScanRows == 50      \* range(min(50, len(raw)))

----------------------------------------------------------------------------
(* Texts *)

None == <<>>

UpperCase == << "A","B","C","D","E","F","G","H","I","J","K","L","M",
                "N","O","P","Q","R","S","T","U","V","W","X","Y","Z" >>
LowerCase == << "a","b","c","d","e","f","g","h","i","j","k","l","m",
                "n","o","p","q","r","s","t","u","v","w","x","y","z" >>

\* the lower case letter of each upper case letter
ToLower ==
    [ch \in {UpperCase[i] : i \in 1..Len(UpperCase)} |->
        LowerCase[CHOOSE i \in 1..Len(UpperCase) : UpperCase[i] = ch]]

\* str.lower() on one character
LowerChar(ch) == IF ch \in DOMAIN ToLower THEN ToLower[ch] ELSE ch

\* str.lower()
RECURSIVE Lower(_)
Lower(s) ==
    IF Len(s) = 0 THEN <<>> ELSE <<LowerChar(Head(s))>> \o Lower(Tail(s))

\* k in s  (substring test)
Contains(s, k) ==
    \E i \in 0..(Len(s) - Len(k)) : SubSeq(s, i + 1, i + Len(k)) = k

\* " ".join(parts)
RECURSIVE Join(_)
Join(parts) ==
    IF Len(parts) = 0 THEN <<>>
    ELSE IF Len(parts) = 1 THEN parts[1]
    ELSE parts[1] \o <<" ">> \o Join(Tail(parts))

\* Keywords
kw_section_time == <<"s","e","c","t","i","o","n"," ","t","i","m","e">>
kw_section == <<"s","e","c","t","i","o","n">>
kw_time == <<"t","i","m","e">>
kw_tps == <<"t","p","s">>
kw_lambda == <<"l","a","m","b","d","a">>
kw_fuel == <<"f","u","e","l">>
kw_ect == <<"e","c","t">>

\* Names of the logical channels, the keys of cols and the labels of the
\* columns analyze_dataframe adds
L_Time == <<"T","i","m","e">>
L_TPS == <<"T","P","S">>
L_AFR == <<"A","F","R">>
L_Fuel == <<"F","u","e","l">>
L_ECT == <<"E","C","T">>
L_Lambda == <<"L","a","m","b","d","a">>
L_OUT == <<"O","U","T">>
L_dt == <<"d","t">>

\* Column labels met in logger files
L_SectionTime == <<"S","e","c","t","i","o","n"," ","T","i","m","e">>
L_LapTime == <<"L","a","p"," ","T","i","m","e">>
L_TPSMain == <<"T","P","S"," ","(","M","a","i","n",")">>
L_Lambda1 == <<"L","a","m","b","d","a"," ","1">>
L_Lambda2 == <<"L","a","m","b","d","a"," ","2">>
L_FuelPress == <<"F","u","e","l"," ","P","r","e","s","s">>
L_RPM == <<"R","P","M">>
L_Logger == <<"L","o","g","g","e","r">>

\* Exception texts
msg_colonnes ==
    <<"C","o","l","o","n","n","e","s"," ","r","e","q","u","i","s","e","s"," ",
      "m","a","n","q","u","a","n","t","e","s">>
msg_exploitable ==
    <<"A","u","c","u","n","e"," ","d","o","n","n","e","e"," ",
      "e","x","p","l","o","i","t","a","b","l","e">>
msg_entete ==
    <<"I","m","p","o","s","s","i","b","l","e"," ","d","e"," ","d","e","t","e","c","t","e","r",
      " ","l","'","e","n","-","t","e","t","e">>
msg_aucune ==
    <<"A","u","c","u","n","e"," ","d","o","n","n","e","e"," ","v","a","l","i","d","e"," ",
      "a","p","r","e","s"," ","l","'","e","n","-","t","e","t","e">>
\* (the accented letters of the source texts are written without their accents)

----------------------------------------------------------------------------
(* Cells *)

Num(v) == [kind |-> "num", val |-> v]
NaN == [kind |-> "nan", val |-> 0]
Str(s) == [kind |-> "txt", val |-> s]
Txt == Str(<<"n", "/", "a">>)
Bool(b) == [kind |-> "bool", val |-> IF b THEN 1 ELSE 0]

IsNum(c) == c.kind = "num"

\* pd.to_numeric(cell, errors="coerce"): a cell that does not parse becomes NaN
to_numeric(c) == IF IsNum(c) THEN c ELSE NaN

\* comparisons of float columns: any comparison with NaN is False
Le(a, b) == IsNum(a) /\ IsNum(b) /\ a.val <= b.val
Ge(a, b) == IsNum(a) /\ IsNum(b) /\ a.val >= b.val

\* mutant of between: exclusive on both sides
between_open(c, lo, hi) == Ge(c, Num(lo + 1)) /\ Le(c, Num(hi - 1))

\* Series.between(lo, hi), inclusive on both sides
between(c, lo, hi) == Ge(c, Num(lo)) /\ Le(c, Num(hi))

----------------------------------------------------------------------------
(* Tables *)

\* position of the column labelled c
ColIndex(columns, c) == CHOOSE i \in 1..Len(columns) : columns[i] = c

HasCol(columns, c) == \E i \in 1..Len(columns) : columns[i] = c

\* df[c]: the cells of column c, one per row
Column(t, c) ==
    LET i == ColIndex(t.columns, c)
    IN  [r \in 1..Len(t.rows) |-> t.rows[r][i]]

\* df[k] = values: replaces the column labelled k, or appends a new one
SetColumn(t, k, values) ==
    IF HasCol(t.columns, k)
    THEN LET i == ColIndex(t.columns, k)
         IN  [columns |-> t.columns,
              rows |-> [r \in 1..Len(t.rows) |->
                          [t.rows[r] EXCEPT ![i] = values[r]]]]
    ELSE [columns |-> Append(t.columns, k),
          rows |-> [r \in 1..Len(t.rows) |-> Append(t.rows[r], values[r])]]

\* df[mask]: the rows whose mask is true, in order
RECURSIVE SelectRows(_, _)
SelectRows(rows, keep) ==
    IF Len(rows) = 0 THEN <<>>
    ELSE IF keep[1]
         THEN <<rows[1]>> \o SelectRows(Tail(rows), Tail(keep))
         ELSE SelectRows(Tail(rows), Tail(keep))

\* Series.diff().fillna(0): difference with the previous row, 0 for the first
diff_fillna0(col) ==
    [r \in 1..Len(col) |->
        IF r > 1 /\ IsNum(col[r]) /\ IsNum(col[r - 1])
        THEN Num(col[r].val - col[r - 1].val)
        ELSE Num(0)]

----------------------------------------------------------------------------
(* analyze_dataframe, src/app2.py lines 110-159 *)

\* any(k in cl for k in keys), cl = c.lower()
KeyMatch(c, keys) ==
    \E cl \in {Lower(c)} : \E k \in 1..Len(keys) : Contains(cl, keys[k])

\* the loop  for c in df.columns  of find_col, from column i on
RECURSIVE find_from(_, _, _)
find_from(columns, keys, i) ==
    IF i > Len(columns) THEN None
    ELSE IF KeyMatch(columns[i], keys) THEN columns[i]
    ELSE find_from(columns, keys, i + 1)

\* find_col: the first column, in column order, whose lowered label contains
\* any of the keys; None when there is none
find_col(columns, keys) == find_from(columns, keys, 1)

\* cols = {"Time": find_col([...]), ...}
ResolveCols(columns) ==
    [ Time |-> find_col(columns, <<kw_section_time, kw_time>>),
      TPS  |-> find_col(columns, <<kw_tps>>),
      AFR  |-> find_col(columns, <<kw_lambda>>),
      Fuel |-> find_col(columns, <<kw_fuel>>),
      ECT  |-> find_col(columns, <<kw_ect>>) ]

\* any(v is None for v in cols.values())
MissingCols(cs) ==
    \/ cs.Time = None
    \/ cs.TPS = None
    \/ cs.AFR = None
    \/ cs.Fuel = None
    \/ cs.ECT = None

\* df[k] = pd.to_numeric(df[c], errors="coerce")
CoerceInto(t, k, c) ==
    LET src == Column(t, c)
    IN  SetColumn(t, k, [r \in 1..Len(t.rows) |-> to_numeric(src[r])])

\* for k, c in cols.items(): ...   (in the order of the dict literal)
Coerce(t, cs) ==
    LET t1 == CoerceInto(t, L_Time, cs.Time)
        t2 == CoerceInto(t1, L_TPS, cs.TPS)
        t3 == CoerceInto(t2, L_AFR, cs.AFR)
        t4 == CoerceInto(t3, L_Fuel, cs.Fuel)
    IN  CoerceInto(t4, L_ECT, cs.ECT)

\* df.dropna(subset=["Time", "TPS", "AFR", "Fuel"])
dropna(t) ==
    LET time == Column(t, L_Time)
        tps == Column(t, L_TPS)
        afr == Column(t, L_AFR)
        fuel == Column(t, L_Fuel)
        keep == [r \in 1..Len(t.rows) |->
                    IsNum(time[r]) /\ IsNum(tps[r]) /\ IsNum(afr[r]) /\ IsNum(fuel[r])]
    IN  [columns |-> t.columns, rows |-> SelectRows(t.rows, keep)]

\* mutant of KeepsTime: > 0 in place of >= 0
KeepsTime_strict(d) == Ge(d, Num(1))

\* the mask  df["Time"].diff().fillna(0) >= 0
KeepsTime(d) == Ge(d, Num(0))

\* df[df["Time"].diff().fillna(0) >= 0]
MonoFilter(t) ==
    LET d == diff_fillna0(Column(t, L_Time))
        keep == [r \in 1..Len(t.rows) |-> KeepsTime(d[r])]
    IN  [columns |-> t.columns, rows |-> SelectRows(t.rows, keep)]

\* df["AFR"] / 14.7, in units of 1/147000: (a/1000) / 14.7 = 10 a / 147000
LambdaOf(afr) == IF IsNum(afr) THEN Num(afr.val * 10) ELSE NaN

\* the row's OUT flag, lines 141-146; lambda_min and lambda_max are brought
\* to the unit of Lambda: 0.75 = 75 * 147 * 10 / 147000
OutFlag(tps, lambda, fuel, ect, ambient) ==
    /\ ~between(tps, CFG.tps_min, CFG.tps_max)
    /\ ~between(lambda, CFG.lambda_min * Stoich * 10, CFG.lambda_max * Stoich * 10)
    /\ ~between(fuel, CFG.fuel_min, CFG.fuel_max)
    /\ Le(ect, Num(ambient + CFG.temp_offset))

\* lines 139-148: the Lambda, OUT and dt columns
Derive(t, ambient) ==
    LET afr == Column(t, L_AFR)
        t1 == SetColumn(t, L_Lambda, [r \in 1..Len(t.rows) |-> LambdaOf(afr[r])])
        tps == Column(t1, L_TPS)
        lambda == Column(t1, L_Lambda)
        fuel == Column(t1, L_Fuel)
        ect == Column(t1, L_ECT)
        t2 == SetColumn(t1, L_OUT,
                  [r \in 1..Len(t1.rows) |->
                      Bool(OutFlag(tps[r], lambda[r], fuel[r], ect[r], ambient))])
    IN  SetColumn(t2, L_dt, diff_fillna0(Column(t2, L_Time)))

\* mutants of Trigger: a strict comparison; a threshold of 0.4 s
Trigger_strict(cumul) == cumul > CFG.cheat_delay
Trigger_low(cumul) == cumul >= CFG.cheat_delay - 1

\* if cumul >= CFG["cheat_delay"]
Trigger(cumul) == cumul >= CFG.cheat_delay

\* mutant of ResetCumul: the accumulator is kept over a compliant sample
ResetCumul_keep(cumul) == cumul

\* else: cumul = 0.0
ResetCumul(cumul) == 0

\* the loop of lines 150-159 from row i on, with the accumulator cumul
RECURSIVE Debounce(_, _, _, _, _)
Debounce(times, outs, dts, i, cumul) ==
    IF i > Len(times)
    THEN [cheat |-> FALSE, cheat_time |-> NaN]
    ELSE IF outs[i].val = 1
         THEN LET c == cumul + dts[i].val
              IN  IF Trigger(c)
                  THEN [cheat |-> TRUE, cheat_time |-> times[i]]
                  ELSE Debounce(times, outs, dts, i + 1, c)
         ELSE Debounce(times, outs, dts, i + 1, ResetCumul(cumul))

\* the verdict of the loop on a table that has its Time, OUT and dt columns
Verdict(t) ==
    Debounce(Column(t, L_Time), Column(t, L_OUT), Column(t, L_dt), 1, 0)

\* One call analyze_dataframe(df, ambient_temp), the caller assigning the
\* result as upload does: df, cheat, cheat_time = analyze_dataframe(...).
\* Line 131 assigns into the caller's table, which keeps the new columns
\* when line 137 raises.  (\E x \in {e} names the value e, evaluated once.)
Analyze ==
    /\ pc \in {"loaded", "analyzed"}
    /\ Len(verdicts) < MaxCalls
    /\ arg' = df
    /\ \E cs \in {ResolveCols(df.columns)} :
         /\ cols' = cs
         /\ IF MissingCols(cs)
              THEN /\ pc' = "failed"
                   /\ message' = msg_colonnes
                   /\ UNCHANGED <<df, verdicts>>
              ELSE \E coerced \in {Coerce(df, cs)} :
                   \E valid \in {dropna(coerced)} :
                   \E kept \in {MonoFilter(valid)} :
                     IF Len(kept.rows) = 0
                     THEN /\ pc' = "failed"
                          /\ message' = msg_exploitable
                          /\ df' = coerced
                          /\ UNCHANGED verdicts
                     ELSE \E out \in {Derive(kept, ambient_temp)} :
                            /\ pc' = "analyzed"
                            /\ df' = out
                            /\ verdicts' = Append(verdicts, Verdict(out))
                            /\ UNCHANGED message
    /\ UNCHANGED <<file, ambient_temp, reqs, now, disk>>

----------------------------------------------------------------------------
(* Specification of the evaluator: analyze_dataframe on a loaded table *)

NoTable == [columns |-> <<>>, rows |-> <<>>]

\* no upload request is in flight, UPLOAD_DIR holds no result file
NoUpload == reqs = <<>> /\ now = 0 /\ disk = <<>>
NoCols == [Time |-> None, TPS |-> None, AFR |-> None, Fuel |-> None, ECT |-> None]

\* a header as load_csv_robuste accepts it (it holds "section" and "time")
Header == <<L_ECT, L_SectionTime, L_TPSMain, L_Lambda1, L_FuelPress>>

\* a row under Header: cool engine (ECT 25), AFR 20.0 and Fuel 30 out of
\* range, so that the row is OUT exactly when its TPS is out of range
MkRow(time, tps) == <<Num(25), time, tps, Num(20000), Num(30)>>

\* Time values of the rows, tenths of a second: they give every sampling
\* interval from 0.1 s to 0.6 s, among them 0.2 s and the threshold 0.5 s
TimeVals == {0, 2, 4, 5, 6}

\* TPS values: 50 is out of range, 95 in range
RowSet ==
    {MkRow(Num(t), Num(tps)) : t \in TimeVals, tps \in {50, 95}}
        \cup {MkRow(Txt, Num(50)), MkRow(Num(0), Txt)}

Tables ==
    UNION {[columns : {Header}, rows : [1..n -> RowSet]] : n \in 1..MaxRows}

Init ==
    /\ pc = "loaded"
    /\ file = <<>>
    /\ df \in Tables
    /\ arg = NoTable
    /\ cols = NoCols
    /\ ambient_temp \in {10}
    /\ verdicts = <<>>
    /\ message = None
    /\ NoUpload

Next == Analyze

Spec == Init /\ [][Next]_vars

----------------------------------------------------------------------------
(* load_csv_robuste, src/app2.py lines 82-107 *)

\* str(cell), as astype(str) gives it: the text of a text cell, "nan" for a
\* missing value; a number is written with digits, sign and point only,
\* here with the digit 0
CellStr(c) ==
    IF c.kind = "txt" THEN c.val
    ELSE IF c.kind = "nan" THEN <<"n", "a", "n">>
    ELSE <<"0">>

\* " ".join(raw.iloc[i].astype(str).str.lower())
row_text(row) == Join([k \in 1..Len(row) |-> Lower(CellStr(row[k]))])

\* "section" in row_text and "time" in row_text
IsHeaderRow(row) ==
    \E txt \in {row_text(row)} : Contains(txt, kw_section) /\ Contains(txt, kw_time)

\* pd.read_csv(file, engine="python", sep=",", on_bad_lines="skip") with its
\* default header=0: the first line of the file gives the column labels of
\* raw, the lines after it are the rows of raw.  (Files here are rectangular
\* and have no blank line, so that no line is skipped.)
read_csv(f) ==
    [columns |-> [k \in 1..Len(f[1]) |-> CellStr(f[1][k])], rows |-> Tail(f)]

\* mutant of ScanLimit: every row of raw is scanned
ScanLimit_all(raw) == Len(raw.rows)

\* min(50, len(raw))
ScanLimit(raw) == IF Len(raw.rows) < ScanRows THEN Len(raw.rows) ELSE ScanRows

\* the loop of lines 91-95 from raw row i on (i counts from 1 here, raw row
\* i is raw.iloc[i - 1]): the first row that holds both words, 0 for None
RECURSIVE scan_header(_, _)
scan_header(raw, i) ==
    IF i > ScanLimit(raw) THEN 0
    ELSE IF IsHeaderRow(raw.rows[i]) THEN i
    ELSE scan_header(raw, i + 1)

\* a row that dropna(how="all") drops: every cell is missing
AllNaN(row) == \A k \in 1..Len(row) : row[k].kind = "nan"

\* raw.iloc[header_row + 1:], columns = raw.iloc[header_row], dropna(how="all")
Body(raw, h) ==
    [columns |-> [k \in 1..Len(raw.rows[h]) |-> raw.rows[h][k].val],
     rows |-> SelectRows(SubSeq(raw.rows, h + 1, Len(raw.rows)),
                         [r \in 1..(Len(raw.rows) - h) |-> ~AllNaN(raw.rows[h + r])])]

\* One call df = load_csv_robuste(file) of upload
Load ==
    /\ pc = "start"
    /\ \E raw \in {read_csv(file)} :
       \E h \in {scan_header(raw, 1)} :
         IF h = 0
         THEN /\ pc' = "failed"
              /\ message' = msg_entete
              /\ UNCHANGED df
         ELSE \E body \in {Body(raw, h)} :
                IF Len(body.rows) = 0
                THEN /\ pc' = "failed"
                     /\ message' = msg_aucune
                     /\ UNCHANGED df
                ELSE /\ pc' = "loaded"
                     /\ df' = body
                     /\ UNCHANGED message
    /\ UNCHANGED <<file, arg, cols, ambient_temp, verdicts, reqs, now, disk>>

----------------------------------------------------------------------------
(* Specification of channel resolution: analyze_dataframe on tables with    *)
(* every header of 4 to MaxCols distinct labels that holds "section" and    *)
(* "time", and one row                                                      *)

LabelSet ==
    {L_SectionTime, L_LapTime, L_TPSMain, L_Lambda1, L_Lambda2, L_FuelPress, L_ECT, L_RPM}

Headers ==
    UNION {{h \in [1..n -> LabelSet] :
              /\ \A i \in 1..n : \A j \in 1..n : h[i] = h[j] => i = j
              /\ IsHeaderRow([k \in 1..n |-> Str(h[k])])} : n \in 4..MaxCols}

\* the row under a header of n labels: cell k holds the number k
NumberedRow(n) == [k \in 1..n |-> Num(k)]

InitCols ==
    /\ pc = "loaded"
    /\ file = <<>>
    /\ \E h \in Headers : df = [columns |-> h, rows |-> <<NumberedRow(Len(h))>>]
    /\ arg = NoTable
    /\ cols = NoCols
    /\ ambient_temp \in {10}
    /\ verdicts = <<>>
    /\ message = None
    /\ NoUpload

SpecCols == InitCols /\ [][Next]_vars

----------------------------------------------------------------------------
(* Specification of the loader: load_csv_robuste on files of 0 to MaxBanner *)
(* banner lines followed by up to MaxTail header, empty and data lines      *)

BannerLine == <<Str(L_Logger), NaN, NaN, NaN, NaN>>
HeaderLine == [k \in 1..Len(Header) |-> Str(Header[k])]
EmptyLine == <<NaN, NaN, NaN, NaN, NaN>>
DataLine == MkRow(Num(0), Num(50))

Files ==
    {[k \in 1..b |-> BannerLine] \o tail :
        b \in 0..MaxBanner,
        tail \in UNION {[1..n -> {HeaderLine, EmptyLine, DataLine}] : n \in 0..MaxTail}}
      \ {<<>>}

InitLoad ==
    /\ pc = "start"
    /\ file \in Files
    /\ df = NoTable
    /\ arg = NoTable
    /\ cols = NoCols
    /\ ambient_temp \in {10}
    /\ verdicts = <<>>
    /\ message = None
    /\ NoUpload

SpecLoad == InitLoad /\ [][Load]_vars

----------------------------------------------------------------------------
(* Specification of the rule: analyze_dataframe on tables whose cells stand  *)
(* on both sides of every bound of CFG and on the bounds themselves, with    *)
(* the ECT cell at the limit, above it, or missing                           *)

\* a row under Header
RuleRow(time, tps, afr, fuel, ect) == <<ect, time, tps, afr, fuel>>

\* TPS and Fuel around and on their bounds; AFR around and on 11.025 and
\* 15.435 (Lambda 0.75 and 1.05); ECT at and above 10 + temp_offset, or missing
TPSVals == {89, 90, 105, 106}
AFRVals == {11024, 11025, 15435, 15436}
FuelVals == {39, 40, 60, 61}
ECTCells == {Num(30), Num(31), Txt}

\* the row at time t, out of range on TPS, AFR and Fuel, with ECT cell ect
OutRow(t, ect) == RuleRow(Num(t), Num(89), Num(11024), Num(39), ect)

\* the rows of a series sampled every 0.3 s: out of range on the three
\* channels with each ECT cell, or with TPS on its lower bound
ShortRows ==
    {OutRow(0, ect) : ect \in ECTCells}
        \cup {RuleRow(Num(0), Num(90), Num(11024), Num(39), Num(30))}

\* the row at place i of such a series: its Time is 0.3 (i - 1)
Sampled(row, i) == [row EXCEPT ![2] = Num(3 * (i - 1))]

RuleTables ==
    {[columns |-> Header, rows |-> <<RuleRow(Num(0), Num(tps), Num(afr), Num(fuel), ect)>>] :
        tps \in TPSVals, afr \in AFRVals, fuel \in FuelVals, ect \in ECTCells}
      \cup UNION {{[columns |-> Header, rows |-> [i \in 1..n |-> Sampled(rs[i], i)]] :
                      rs \in [1..n -> ShortRows]} : n \in 2..MaxRows}

InitRule ==
    /\ pc = "loaded"
    /\ file = <<>>
    /\ df \in RuleTables
    /\ arg = NoTable
    /\ cols = NoCols
    /\ ambient_temp \in {10}
    /\ verdicts = <<>>
    /\ message = None
    /\ NoUpload

SpecRule == InitRule /\ [][Next]_vars

----------------------------------------------------------------------------
(* upload and download, src/app2.py lines 166-205.  Each request runs the   *)
(* handler in its own thread; the clock and the directory UPLOAD_DIR are    *)
(* what the requests share.  A request is at "start", then "analyzed"       *)
(* (line 176 done), "named" (line 178 done), "written" (line 180 done) and  *)
(* "done" (a page returned).  An absent value is the empty sequence.        *)

MaxNow == 2         \* last value of the clock, half seconds

HeadRows == 100     \* df.head(100)

\* raise ValueError(msg)
Raise(msg) ==
    [raised |-> TRUE, message |-> msg, df |-> NoTable, cheat |-> FALSE, cheat_time |-> NaN]

\* return df, cheat, cheat_time   (load_csv_robuste returns df alone)
Return(t, cheat, cheat_time) ==
    [raised |-> FALSE, message |-> None, df |-> t, cheat |-> cheat, cheat_time |-> cheat_time]

\* load_csv_robuste(file), lines 82-107, as the value of the call
load_csv_robuste(f) ==
    LET raw == read_csv(f)
        h == scan_header(raw, 1)
    IN  IF h = 0 THEN Raise(msg_entete)
        ELSE LET body == Body(raw, h)
             IN  IF Len(body.rows) = 0 THEN Raise(msg_aucune)
                 ELSE Return(body, FALSE, NaN)

\* analyze_dataframe(df, ambient_temp), lines 110-159, as the value of the call
analyze_dataframe(t, ambient) ==
    LET cs == ResolveCols(t.columns)
    IN  IF MissingCols(cs) THEN Raise(msg_colonnes)
        ELSE LET kept == MonoFilter(dropna(Coerce(t, cs)))
             IN  IF Len(kept.rows) = 0 THEN Raise(msg_exploitable)
                 ELSE LET out == Derive(kept, ambient)
                          v == Verdict(out)
                      IN  Return(out, v.cheat, v.cheat_time)

\* int(datetime.now().timestamp()): the whole seconds of a clock value
int_timestamp(t) == t \div 2

\* df.to_csv(path, index=False): the line of the labels, then the rows
to_csv(t) == <<[k \in 1..Len(t.columns) |-> Str(t.columns[k])]>> \o t.rows

\* df.head(100)
head(t) ==
    [columns |-> t.columns,
     rows |-> SubSeq(t.rows, 1, IF Len(t.rows) < HeadRows THEN Len(t.rows) ELSE HeadRows)]

\* the pages of render_template_string: lines 195-198 and lines 187-192
NoPage == [message |-> None, table |-> NoTable, download |-> <<>>, etat |-> <<>>]
ErrorPage(msg) == [message |-> msg, table |-> NoTable, download |-> <<>>, etat |-> <<>>]
ResultPage(table, fname, etat) ==
    [message |-> None, table |-> table, download |-> fname, etat |-> etat]

\* a request that upload has not begun to serve
NewRequest(f, ambient) ==
    [pc |-> "start", file |-> f, ambient_temp |-> ambient, df |-> NoTable,
     etat |-> <<>>, fname |-> <<>>, response |-> NoPage, got |-> <<>>]

\* lines 168-176 of upload for request r, and lines 194-198 when one of the
\* two calls raises
UploadAnalyze(r) ==
    /\ reqs[r].pc = "start"
    /\ \E loaded \in {load_csv_robuste(reqs[r].file)} :
         IF loaded.raised
         THEN reqs' = [reqs EXCEPT ![r].pc = "done",
                                   ![r].response = ErrorPage(loaded.message)]
         ELSE \E res \in {analyze_dataframe(loaded.df, reqs[r].ambient_temp)} :
                IF res.raised
                THEN reqs' = [reqs EXCEPT ![r].pc = "done",
                                          ![r].response = ErrorPage(res.message)]
                ELSE reqs' = [reqs EXCEPT
                                ![r].pc = "analyzed",
                                ![r].df = res.df,
                                ![r].etat = <<[cheat |-> res.cheat,
                                               cheat_time |-> res.cheat_time]>>]
    /\ UNCHANGED <<pc, file, df, arg, cols, ambient_temp, verdicts, message, now, disk>>

\* line 178: fname = f"result_{int(datetime.now().timestamp())}.csv"; the
\* name result_n.csv is written <<n>>
UploadName(r) ==
    /\ reqs[r].pc = "analyzed"
    /\ reqs' = [reqs EXCEPT ![r].pc = "named", ![r].fname = <<int_timestamp(now)>>]
    /\ UNCHANGED <<pc, file, df, arg, cols, ambient_temp, verdicts, message, now, disk>>

\* lines 179-180: df.to_csv(path, index=False) creates or replaces the file
UploadWrite(r) ==
    /\ reqs[r].pc = "named"
    /\ disk' = [n \in DOMAIN disk \cup {reqs[r].fname} |->
                   IF n = reqs[r].fname THEN to_csv(reqs[r].df) ELSE disk[n]]
    /\ reqs' = [reqs EXCEPT ![r].pc = "written"]
    /\ UNCHANGED <<pc, file, df, arg, cols, ambient_temp, verdicts, message, now>>

\* lines 182-192: the page with the table, the download link and etat
UploadReturn(r) ==
    /\ reqs[r].pc = "written"
    /\ reqs' = [reqs EXCEPT
                  ![r].pc = "done",
                  ![r].response = ResultPage(head(reqs[r].df), reqs[r].fname, reqs[r].etat)]
    /\ UNCHANGED <<pc, file, df, arg, cols, ambient_temp, verdicts, message, now, disk>>

\* download, lines 200-205: the client of request r follows the link of its
\* page, once, at any later time
Download(r) ==
    /\ reqs[r].pc = "done"
    /\ reqs[r].response.download # <<>>
    /\ reqs[r].got = <<>>
    /\ reqs' = [reqs EXCEPT ![r].got = disk[reqs[r].response.download]]
    /\ UNCHANGED <<pc, file, df, arg, cols, ambient_temp, verdicts, message, now, disk>>

\* the clock advances
Tick ==
    /\ now < MaxNow
    /\ now' = now + 1
    /\ UNCHANGED <<pc, file, df, arg, cols, ambient_temp, verdicts, message, reqs, disk>>

NextUpload ==
    \/ \E r \in DOMAIN reqs : UploadAnalyze(r)
    \/ \E r \in DOMAIN reqs : UploadName(r)
    \/ \E r \in DOMAIN reqs : UploadWrite(r)
    \/ \E r \in DOMAIN reqs : UploadReturn(r)
    \/ \E r \in DOMAIN reqs : Download(r)
    \/ Tick

\* Specification of one upload: one request, its file any file of Files
InitRequest ==
    /\ pc = "idle"
    /\ file = <<>>
    /\ df = NoTable
    /\ arg = NoTable
    /\ cols = NoCols
    /\ ambient_temp \in {10}
    /\ verdicts = <<>>
    /\ message = None
    /\ reqs \in [{1} -> {NewRequest(f, 10) : f \in Files}]
    /\ now = 0
    /\ disk = <<>>

SpecRequest == InitRequest /\ [][NextUpload]_vars

\* Specification of concurrent uploads: two requests, each with one of
\* three files: a series that fails, a series that passes, a file with no
\* header row
Requests == {1, 2}

FileFail == <<BannerLine, HeaderLine, MkRow(Num(0), Num(50)), MkRow(Num(5), Num(50))>>
FilePass == <<BannerLine, HeaderLine, MkRow(Num(0), Num(95))>>
FileNoHeader == <<BannerLine, DataLine>>

UploadFiles == {FileFail, FilePass, FileNoHeader}

InitUpload ==
    /\ pc = "idle"
    /\ file = <<>>
    /\ df = NoTable
    /\ arg = NoTable
    /\ cols = NoCols
    /\ ambient_temp \in {10}
    /\ verdicts = <<>>
    /\ message = None
    /\ reqs \in [Requests -> {NewRequest(f, 10) : f \in UploadFiles}]
    /\ now = 0
    /\ disk = <<>>

SpecUpload == InitUpload /\ [][NextUpload]_vars

----------------------------------------------------------------------------
(* The retained series of the last successful call, read from df, with the  *)
(* sampling intervals and the accumulator defined from the Time and OUT     *)
(* columns alone.                                                           *)

Analyzed == pc = "analyzed"
LastVerdict == verdicts[Len(verdicts)]
NSamples == Len(df.rows)
TimeAt(i) == df.rows[i][ColIndex(df.columns, L_Time)]
Violating(i) == df.rows[i][ColIndex(df.columns, L_OUT)].val = 1

\* time since the previous retained sample, 0 for the first sample
DtAt(i) == IF i = 1 THEN 0 ELSE TimeAt(i).val - TimeAt(i - 1).val

\* sum of the dt of the samples j..i
RECURSIVE SumDt(_, _)
SumDt(j, i) == IF j > i THEN 0 ELSE DtAt(j) + SumDt(j + 1, i)

\* the samples j..i are one run of violating samples that starts at j
IsRun(j, i) ==
    /\ j <= i
    /\ \A k \in j..i : Violating(k)
    /\ (j = 1 \/ ~Violating(j - 1))

\* the accumulator at sample i: the dt summed over the run that i is in
CumAt(i) ==
    IF ~Violating(i) THEN 0
    ELSE SumDt(CHOOSE j \in 1..i : IsRun(j, i), i)

\* the samples at which the accumulator has reached the threshold
Hits == {i \in 1..NSamples : Violating(i) /\ CumAt(i) >= CFG.cheat_delay}
FirstHit == CHOOSE i \in Hits : \A k \in Hits : i <= k

\* C1 (debounce trigger law): the verdict is FAIL exactly when the accumulator
\* reaches cheat_delay at some retained sample (cum = cheat_delay included),
\* the reported time is the Time of the earliest such sample, and without
\* such a sample the verdict is PASS with no time.
C1_TriggerLaw ==
    Analyzed =>
        IF Hits = {}
        THEN LastVerdict = [cheat |-> FALSE, cheat_time |-> NaN]
        ELSE LastVerdict = [cheat |-> TRUE, cheat_time |-> TimeAt(FirstHit)]

\* a FAIL whose accumulator equals the threshold exactly, at a sample that
\* later samples, violating too, follow
C1_Witness ==
    /\ Analyzed
    /\ LastVerdict.cheat
    /\ CumAt(FirstHit) = CFG.cheat_delay
    /\ FirstHit < NSamples
    /\ Violating(FirstHit + 1)

\* C2 (debounce reset law): a compliant sample sets the accumulator to 0, so
\* a FAIL needs one run of violating samples that reaches cheat_delay by its
\* own dt; and dt = [0, 0.2, 0.2, 0.2] with sample 2 compliant gives PASS.
C2_Scenario ==
    /\ NSamples = 4
    /\ \A i \in 2..4 : DtAt(i) = 2
    /\ Violating(1) /\ Violating(2) /\ ~Violating(3) /\ Violating(4)

C2_ResetLaw ==
    Analyzed =>
        /\ LastVerdict.cheat =>
              \E j \in 1..NSamples : \E i \in j..NSamples :
                  IsRun(j, i) /\ SumDt(j, i) >= CFG.cheat_delay
        /\ C2_Scenario => ~LastVerdict.cheat

\* two runs of violating samples around a compliant sample, whose dt reach
\* the threshold together and not alone: PASS
C2_Witness ==
    /\ Analyzed
    /\ ~LastVerdict.cheat
    /\ \E c \in 2..(NSamples - 1) :
          /\ ~Violating(c)
          /\ \A i \in 1..NSamples : i # c => Violating(i)
          /\ SumDt(1, c - 1) > 0
          /\ SumDt(1, c - 1) + SumDt(c + 1, NSamples) >= CFG.cheat_delay

\* C3 (monotonic filtering), as claimed: the Time of the retained rows never
\* decreases and every dt is >= 0.
C3_Monotonic ==
    Analyzed =>
        \A i \in 2..NSamples :
            /\ TimeAt(i).val >= TimeAt(i - 1).val
            /\ df.rows[i][ColIndex(df.columns, L_dt)].val >= 0

\* C6, as claimed: a series whose violating samples are all single samples
\* between two compliant samples gets PASS.
C6_NoSpikeFail ==
    (Analyzed /\ \A i \in 1..NSamples :
                    Violating(i) =>
                        /\ 1 < i /\ i < NSamples
                        /\ ~Violating(i - 1) /\ ~Violating(i + 1))
        => ~LastVerdict.cheat

\* C7 (idempotence), as claimed: the call on the cleaned series of a
\* successful call returns the verdict of that call.
C7_Idempotent ==
    Len(verdicts) >= 2 => verdicts[2] = verdicts[1]

\* C8: four retained samples, all violating, dt = [0, 0.2, 0.2, 0.2]
C8_Scenario ==
    /\ Analyzed
    /\ NSamples = 4
    /\ \A i \in 2..4 : DtAt(i) = 2
    /\ \A i \in 1..4 : Violating(i)

\* C8, as claimed: FAIL reported at sample index 2 (0-based), the 3rd sample
C8_FailAtIndex2 ==
    C8_Scenario => LastVerdict = [cheat |-> TRUE, cheat_time |-> TimeAt(3)]

\* C8, amended: FAIL reported at sample index 3 (0-based), the 4th sample,
\* where the accumulator is 0.6; at index 2 it is 0.4, below the threshold
C8_FailAtIndex3 ==
    C8_Scenario =>
        /\ LastVerdict = [cheat |-> TRUE, cheat_time |-> TimeAt(4)]
        /\ CumAt(3) = 4
        /\ CumAt(4) = 6

C8_Witness == C8_Scenario /\ Len(verdicts) = 1

\* the rows of the table given to the call that survive the cleaning: all of
\* Time, TPS, AFR and Fuel parse, and the Time is not below that of the
\* previous row that parses (the first such row has no previous row)
Parses(r) ==
    /\ IsNum(arg.rows[r][ColIndex(arg.columns, L_SectionTime)])
    /\ IsNum(arg.rows[r][ColIndex(arg.columns, L_TPSMain)])
    /\ IsNum(arg.rows[r][ColIndex(arg.columns, L_Lambda1)])
    /\ IsNum(arg.rows[r][ColIndex(arg.columns, L_FuelPress)])

Survives(r) ==
    /\ Parses(r)
    /\ \A q \in 1..(r - 1) :
          (Parses(q) /\ \A m \in (q + 1)..(r - 1) : ~Parses(m)) =>
              arg.rows[r][ColIndex(arg.columns, L_SectionTime)].val
                  >= arg.rows[q][ColIndex(arg.columns, L_SectionTime)].val

DataError == pc = "failed" /\ message = msg_exploitable

\* C10: the call ends in the data error, with no verdict, exactly when no row
\* survives the cleaning; it does when every row has a missing TPS; a cell
\* that does not parse raises nothing by itself.
C10_DataError ==
    pc \in {"analyzed", "failed"} =>
        /\ DataError <=> (\A r \in 1..Len(arg.rows) : ~Survives(r))
        /\ DataError => verdicts = <<>>
        /\ (\A r \in 1..Len(arg.rows) :
                ~IsNum(arg.rows[r][ColIndex(arg.columns, L_TPSMain)])) => DataError
        /\ (\E r \in 1..Len(arg.rows) : Survives(r)) => Analyzed

\* every row of a table of two rows or more has a missing TPS: data error
C10_Witness ==
    /\ DataError
    /\ Len(arg.rows) >= 2
    /\ \A r \in 1..Len(arg.rows) :
          ~IsNum(arg.rows[r][ColIndex(arg.columns, L_TPSMain)])

----------------------------------------------------------------------------
(* Claims on the loader (SpecLoad) and on channel resolution (SpecCols) *)

\* the first line of the file that holds "section" and "time", 0 if none
\* (line i here is row i - 1 of the file, counted from 0)
FirstHeaderLine ==
    IF \E i \in 1..Len(file) : IsHeaderRow(file[i])
    THEN CHOOSE i \in 1..Len(file) :
            IsHeaderRow(file[i]) /\ \A j \in 1..(i - 1) : ~IsHeaderRow(file[j])
    ELSE 0

\* the first line after line i that is not empty, 0 if none
FirstDataLine(i) ==
    IF \E r \in (i + 1)..Len(file) : ~AllNaN(file[r])
    THEN CHOOSE r \in (i + 1)..Len(file) :
            ~AllNaN(file[r]) /\ \A q \in (i + 1)..(r - 1) : AllNaN(file[q])
    ELSE 0

\* C4 (header discovery), as claimed: when the first row that holds both
\* words is row i of the file, 0 <= i < 50, the first row of the file
\* included, and a non-empty row follows it, the loader returns the table
\* whose labels are the cells of row i and whose first row is the first
\* non-empty row after row i.
C4_HeaderDiscovery ==
    (/\ pc # "start"
     /\ FirstHeaderLine >= 1
     /\ FirstHeaderLine <= ScanRows
     /\ FirstDataLine(FirstHeaderLine) # 0)
        => /\ pc = "loaded"
           /\ df.columns = [k \in 1..Len(file[FirstHeaderLine]) |->
                               file[FirstHeaderLine][k].val]
           /\ df.rows[1] = file[FirstDataLine(FirstHeaderLine)]

HasSectionTime(c) == Contains(Lower(c), kw_section_time)
HasOtherTime(c) == Contains(Lower(c), kw_time) /\ ~HasSectionTime(c)

\* C5 (keyword priority), as claimed: when one label holds "section time"
\* and another holds "time" without "section time", the Time channel is the
\* "section time" column, whatever the order of the two columns.
C5_SectionTimeFirst ==
    (/\ arg # NoTable
     /\ \E i \in 1..Len(arg.columns) : HasSectionTime(arg.columns[i])
     /\ \E i \in 1..Len(arg.columns) : HasOtherTime(arg.columns[i]))
        => HasSectionTime(cols.Time)

\* the message names the channel: it holds the channel's name, in any case
Names(msg, name) == Contains(Lower(msg), Lower(name))

\* C9 (schema error), as claimed: when a channel matches no label, the call
\* fails before any coercion, with no verdict, and the message names every
\* channel that did not resolve.
C9_SchemaError ==
    (arg # NoTable /\ MissingCols(cols)) =>
        /\ pc = "failed"
        /\ df = arg
        /\ verdicts = <<>>
        /\ cols.Time = None => Names(message, L_Time)
        /\ cols.TPS = None => Names(message, L_TPS)
        /\ cols.AFR = None => (Names(message, L_AFR) \/ Names(message, L_Lambda))
        /\ cols.Fuel = None => Names(message, L_Fuel)
        /\ cols.ECT = None => Names(message, L_ECT)

----------------------------------------------------------------------------
(* Claims on the upload flow (SpecRequest) *)

\* the first of the first 50 scanned rows of file f that holds "section" and
\* "time", as a line of f, 0 if none: the scan reads the rows of raw, which
\* are the lines of f after its first line
ScannedHeader(f) ==
    LET last == IF Len(f) < ScanRows + 1 THEN Len(f) ELSE ScanRows + 1
    IN  IF \E i \in 2..last : IsHeaderRow(f[i])
        THEN CHOOSE i \in 2..last :
                IsHeaderRow(f[i]) /\ \A j \in 2..(i - 1) : ~IsHeaderRow(f[j])
        ELSE 0

\* a non-empty row remains below line i of file f
DataBelow(f, i) == \E q \in (i + 1)..Len(f) : ~AllNaN(f[q])

\* load_csv_robuste has returned or raised for request r
Handled(r) == reqs[r].pc = "analyzed" \/ reqs[r].response.message # None

FormatError(r) == reqs[r].response.message \in {msg_entete, msg_aucune}

\* C11 (format error): the load of a request's file fails with a format
\* error exactly when none of the first 50 scanned rows holds both "section"
\* and "time", or no non-empty row remains below the header found; the page
\* of a failed load carries the message alone: no table, no verdict, no
\* download link, and no result file is written.
C11_FormatError ==
    \A r \in DOMAIN reqs :
        Handled(r) =>
            /\ FormatError(r) <=>
                  \E h \in {ScannedHeader(reqs[r].file)} :
                      h = 0 \/ ~DataBelow(reqs[r].file, h)
            /\ FormatError(r) =>
                  /\ reqs[r].pc = "done"
                  /\ reqs[r].response.table = NoTable
                  /\ reqs[r].response.etat = <<>>
                  /\ reqs[r].response.download = <<>>
                  /\ reqs[r].etat = <<>>
                  /\ disk = <<>>

\* a load that fails though the file has a header row and data below it: the
\* header row lies beyond the 50 scanned rows
C11_Witness ==
    \E r \in DOMAIN reqs :
        /\ reqs[r].response.message = msg_entete
        /\ \E i \in (ScanRows + 2)..Len(reqs[r].file) :
              IsHeaderRow(reqs[r].file[i]) /\ DataBelow(reqs[r].file, i)

----------------------------------------------------------------------------
(* Claims on the channels and the rule (SpecCols, SpecRule) *)

\* the columns of the table given to the call whose label holds "lambda"
LambdaColumns ==
    {k \in 1..Len(arg.columns) : Contains(Lower(arg.columns[k]), kw_lambda)}

\* sum of the cells of row at the columns ks
RECURSIVE SumCells(_, _)
SumCells(row, ks) ==
    IF ks = {} THEN 0
    ELSE LET k == CHOOSE x \in ks : TRUE
         IN  row[k].val + SumCells(row, ks \ {k})

\* C12 (lambda averaging), as claimed: when several labels hold "lambda", the
\* Lambda of each retained sample is the mean of all those columns, divided
\* by 14.7 (n * Lambda = sum of the columns / 14.7, in the unit of Lambda).
C12_LambdaMean ==
    (Analyzed /\ Cardinality(LambdaColumns) >= 2) =>
        \A i \in 1..NSamples :
            Cardinality(LambdaColumns) * df.rows[i][ColIndex(df.columns, L_Lambda)].val
                = 10 * SumCells(df.rows[i], LambdaColumns)

\* the label a stands before the label b in the header of the call
Before(a, b) ==
    /\ HasCol(arg.columns, a)
    /\ HasCol(arg.columns, b)
    /\ ColIndex(arg.columns, a) < ColIndex(arg.columns, b)

\* C13 (distinct channels), as claimed: when the five channels resolve, they
\* resolve to five pairwise distinct columns; with a "Section Time" column
\* before an "ECT" column, ECT is the "ECT" column and not the Time column.
C13_DistinctChannels ==
    (arg # NoTable /\ ~MissingCols(cols)) =>
        /\ Cardinality({cols.Time, cols.TPS, cols.AFR, cols.Fuel, cols.ECT}) = 5
        /\ Before(L_SectionTime, L_ECT) =>
              (cols.ECT = L_ECT /\ cols.ECT # cols.Time)

\* the cells of sample i as the call was given them
CellAt(i, label) == arg.rows[i][ColIndex(arg.columns, label)]

\* TPS, Lambda and Fuel of sample i are all three outside their ranges
\* (AFR / 14.7 < 0.75 is AFR < 0.75 * 14.7), and its ECT is a number that
\* is at most ambient_temp + temp_offset
RuleViolation(i) ==
    /\ (CellAt(i, L_TPSMain).val < CFG.tps_min \/ CellAt(i, L_TPSMain).val > CFG.tps_max)
    /\ (CellAt(i, L_Lambda1).val < CFG.lambda_min * Stoich
           \/ CellAt(i, L_Lambda1).val > CFG.lambda_max * Stoich)
    /\ (CellAt(i, L_FuelPress).val < CFG.fuel_min \/ CellAt(i, L_FuelPress).val > CFG.fuel_max)
    /\ CellAt(i, L_ECT).kind = "num"
    /\ CellAt(i, L_ECT).val <= ambient_temp + CFG.temp_offset

\* the samples j..i are one run of samples that break the rule
RuleRun(j, i) ==
    /\ j <= i
    /\ \A k \in j..i : RuleViolation(k)
    /\ (j = 1 \/ ~RuleViolation(j - 1))

\* C14 (violation rule): a retained sample is OUT exactly when TPS, Lambda
\* and Fuel are all outside their inclusive ranges and ECT is present and at
\* most ambient_temp + temp_offset; a row with a missing ECT is retained, is
\* not OUT, and resets the accumulator, as a row with ECT above the limit:
\* the verdict is FAIL exactly when one run of rule-breaking samples reaches
\* cheat_delay by its own dt.
C14_ViolationRule ==
    Analyzed =>
        /\ NSamples = Len(arg.rows)
        /\ \A i \in 1..NSamples : Violating(i) <=> RuleViolation(i)
        /\ LastVerdict.cheat <=>
              \E j \in 1..NSamples : \E i \in j..NSamples :
                  RuleRun(j, i) /\ SumDt(j, i) >= CFG.cheat_delay

\* three samples 0.3 s apart, all out of range on TPS, Lambda and Fuel, the
\* second with a missing ECT: it is retained, and the verdict is PASS
C14_Witness ==
    /\ Analyzed
    /\ NSamples = 3
    /\ RuleViolation(1) /\ RuleViolation(3)
    /\ CellAt(2, L_ECT).kind # "num"
    /\ CellAt(2, L_TPSMain).val < CFG.tps_min
    /\ SumDt(1, 3) >= CFG.cheat_delay
    /\ ~LastVerdict.cheat

----------------------------------------------------------------------------
(* Claim on concurrent uploads (SpecUpload) *)

\* C15 (independent evaluations), as claimed: in every interleaving of two
\* uploads, the result file behind the download link of a request's page
\* holds the cleaned series of that request, and what the request's client
\* downloads is that series: the other request never replaces it.
C15_Independent ==
    \A r \in DOMAIN reqs :
        /\ reqs[r].response.download # <<>> =>
              disk[reqs[r].response.download] = to_csv(reqs[r].df)
        /\ reqs[r].got # <<>> => reqs[r].got = to_csv(reqs[r].df)

====
